---- MODULE Spec2Model ----
(***************************************************************************)
(* Model of "Dementia Instagram/access_token.py": the token files, the     *)
(* expiry-date file, the two Graph-API exchanges and the refresh driver.   *)
(*                                                                         *)
(* A text is a sequence of characters, a character is a one-element        *)
(* string; LF, CR and SUR name the line feed, the carriage return and a    *)
(* lone surrogate (a character the file encoding cannot encode).  Files    *)
(* hold what is on disk; reading and writing go through Python's text      *)
(* mode (universal newlines on read, os.linesep = LF on write).            *)
(* A date is its proleptic Gregorian ordinal (datetime.toordinal); a       *)
(* datetime is [day, tod], tod = 0 being midnight.                         *)
(***************************************************************************)
EXTENDS Integers, Sequences, FiniteSets, TLC

VARIABLES files, now, pc, short_access_token, long_user_token,
          long_page_token, err, userResp, pageResp, sent, log, pre,
          lastOp, lastPut, expWrite

vars == <<files, now, pc, short_access_token, long_user_token,
          long_page_token, err, userResp, pageResp, sent, log, pre,
          lastOp, lastPut, expWrite>>

(* ---------------- bounds of the model ---------------- *)
\* first day of the clock: 738894 is 2024-01-09, 50 days before 2024-02-28
FirstDay == 738894
\* the clock of Spec runs over FirstDay .. FirstDay + DaySpan
DaySpan == 2
\* a driver run or a writing call starts on FirstDay .. FirstDay + RunSpan
RunSpan == 1
\* the clock of SpecExpiry runs over FirstDay .. FirstDay + FarSpan
FarSpan == 52
\* longest token text passed to update_access_token_file in SpecStore
MaxTokenLen == 3
\* instants per day: 0 is midnight, 1 .. TodMax are later in the day
TodMax == 1

(* ---------------- characters and texts ---------------- *)
LF == "LF"
CR == "CR"
SUR == "SUR"
Digits == <<"0", "1", "2", "3", "4", "5", "6", "7", "8", "9">>

IsDigit(c) == \E i \in 1..10 : Digits[i] = c
DigitVal(c) == (CHOOSE i \in 1..10 : Digits[i] = c) - 1

\* config.short_token_file, long_token_file, page_token_file, expire_date_file
short_token_file == "access_token_short.txt"
long_token_file == "access_token_long.txt"
page_token_file == "access_token_page.txt"
expire_date_file == "access_token_expire_date.txt"
FileNames == {short_token_file, long_token_file, page_token_file, expire_date_file}

NoFile == [exists |-> FALSE, data |-> <<>>]
File(t) == [exists |-> TRUE, data |-> t]

(* ---------------- text-mode file I/O ---------------- *)
\* open(name, 'r').read(): universal newlines turn CR LF and CR into LF
RECURSIVE ReadText(_)
ReadText(b) ==
    IF b = <<>> THEN <<>>
    ELSE IF b[1] = CR
         THEN IF Len(b) >= 2 /\ b[2] = LF
              THEN <<LF>> \o ReadText(SubSeq(b, 3, Len(b)))
              ELSE <<LF>> \o ReadText(Tail(b))
         ELSE <<b[1]>> \o ReadText(Tail(b))

\* f.readline(): the text up to and including the first LF
RECURSIVE ReadLine(_)
ReadLine(t) ==
    IF t = <<>> THEN <<>>
    ELSE IF t[1] = LF THEN <<LF>>
         ELSE <<t[1]>> \o ReadLine(Tail(t))

Encodable(t) == \A i \in 1..Len(t) : t[i] # SUR

\* open(name, 'w') truncates (or creates) the file; f.write(t) encodes t
\* and raises UnicodeEncodeError, leaving the file empty, when it cannot
WriteText(t) ==
    IF Encodable(t)
    THEN [file |-> File(t), raised |-> "none"]
    ELSE [file |-> File(<<>>), raised |-> "UnicodeEncodeError"]

(* ---------------- calendar ---------------- *)
IsLeap(y) == y % 4 = 0 /\ (y % 100 # 0 \/ y % 400 = 0)

DaysInMonth(y, m) ==
    IF m = 2 THEN (IF IsLeap(y) THEN 29 ELSE 28)
    ELSE IF m \in {4, 6, 9, 11} THEN 30 ELSE 31

RECURSIVE DaysBeforeMonth(_, _)
DaysBeforeMonth(y, m) ==
    IF m = 1 THEN 0 ELSE DaysBeforeMonth(y, m - 1) + DaysInMonth(y, m - 1)

DaysBeforeYear(y) ==
    (y - 1) * 365 + ((y - 1) \div 4) - ((y - 1) \div 100) + ((y - 1) \div 400)

\* datetime(y, m, d).toordinal()
Ymd2Ord(y, m, d) == DaysBeforeYear(y) + DaysBeforeMonth(y, m) + d

\* datetime.fromordinal(n): year, month and day of ordinal n
Ord2Ymd(n) ==
    LET n0 == n - 1
        n400 == n0 \div 146097
        r400 == n0 % 146097
        n100 == r400 \div 36524
        r100 == r400 % 36524
        n4 == r100 \div 1461
        r4 == r100 % 1461
        n1 == r4 \div 365
        r1 == r4 % 365
        year == n400 * 400 + 1 + n100 * 100 + n4 * 4 + n1
    IN  IF n1 = 4 \/ n100 = 4
        THEN [y |-> year - 1, m |-> 12, d |-> 31]
        ELSE LET month == CHOOSE m \in 1..12 :
                              /\ DaysBeforeMonth(year, m) <= r1
                              /\ r1 < DaysBeforeMonth(year, m) + DaysInMonth(year, m)
             IN  [y |-> year, m |-> month, d |-> r1 - DaysBeforeMonth(year, month) + 1]

\* timedelta(days=50)
ExpireDays == 50

Pad2(n) == <<Digits[(n \div 10) + 1], Digits[(n % 10) + 1]>>
Pad4(n) == <<Digits[((n \div 1000) % 10) + 1], Digits[((n \div 100) % 10) + 1]>> \o Pad2(n % 100)

\* variant of Strftime: the pattern written as '%Y-%d-%m'
Strftime_DayMonth(dt) ==
    LET c == Ord2Ymd(dt.day)
    IN  Pad4(c.y) \o <<"-">> \o Pad2(c.d) \o <<"-">> \o Pad2(c.m)

\* dt.strftime('%Y-%m-%d')
Strftime(dt) ==
    LET c == Ord2Ymd(dt.day)
    IN  Pad4(c.y) \o <<"-">> \o Pad2(c.m) \o <<"-">> \o Pad2(c.d)

AllDigits(s) == \A i \in 1..Len(s) : IsDigit(s[i])

RECURSIVE Number(_)
Number(s) == IF s = <<>> THEN 0 ELSE Number(SubSeq(s, 1, Len(s) - 1)) * 10 + DigitVal(s[Len(s)])

\* %m is 1[0-2]|0[1-9]|[1-9]
MonthField(s) == Len(s) \in {1, 2} /\ AllDigits(s) /\ Number(s) \in 1..12
\* %d is 3[01]|[12]\d|0[1-9]|[1-9]| [1-9]
DayField(s) ==
    \/ Len(s) \in {1, 2} /\ AllDigits(s) /\ Number(s) \in 1..31
    \/ Len(s) = 2 /\ s[1] = " " /\ IsDigit(s[2]) /\ s[2] # "0"
DayNumber(s) == IF s[1] = " " THEN DigitVal(s[2]) ELSE Number(s)

\* the ways to split s as YYYY-m-d, the whole of s being consumed
DateSplits(s) ==
    {p \in {1, 2} \X {1, 2} :
        /\ Len(s) = 6 + p[1] + p[2]
        /\ AllDigits(SubSeq(s, 1, 4))
        /\ s[5] = "-"
        /\ s[6 + p[1]] = "-"
        /\ MonthField(SubSeq(s, 6, 5 + p[1]))
        /\ DayField(SubSeq(s, 7 + p[1], Len(s)))}

\* datetime.strptime(s, '%Y-%m-%d'): midnight of the date, or ValueError
Strptime(s) ==
    IF DateSplits(s) = {}
    THEN [ok |-> FALSE, day |-> 0, tod |-> 0]
    ELSE LET p == CHOOSE q \in DateSplits(s) : TRUE
             y == Number(SubSeq(s, 1, 4))
             m == Number(SubSeq(s, 6, 5 + p[1]))
             d == DayNumber(SubSeq(s, 7 + p[1], Len(s)))
         IN  IF y >= 1 /\ d <= DaysInMonth(y, m)
             THEN [ok |-> TRUE, day |-> Ymd2Ord(y, m, d), tod |-> 0]
             ELSE [ok |-> FALSE, day |-> 0, tod |-> 0]

\* variant of DatetimeLe: the comparison written as a < b
DatetimeLe_Strict(a, b) == a.day < b.day \/ (a.day = b.day /\ a.tod < b.tod)

\* datetime comparison a <= b
DatetimeLe(a, b) == a.day < b.day \/ (a.day = b.day /\ a.tod <= b.tod)


(* ---------------- values of the state ---------------- *)
NoResp == [kind |-> "none", status |-> 0, body |-> "none", access_token |-> <<>>]
ConnError == [kind |-> "conn_error", status |-> 0, body |-> "none", access_token |-> <<>>]
HttpResp(st, b, t) == [kind |-> "http", status |-> st, body |-> b, access_token |-> t]

\* the access tokens a Graph-API answer may carry
RespTokens == {<<"u">>, <<"u", CR>>, <<"u", SUR>>}
\* HTTP statuses of an answer
Statuses == {200, 400}

\* what requests.get can come back with: no answer at all, an error status
\* (its body, an error report, carries no token), or status 200 with a body
\* that is not JSON, is JSON without 'access_token', or carries a token
Responses ==
    {ConnError}
    \cup {HttpResp(st, "nokey", <<>>) : st \in Statuses}
    \cup {HttpResp(200, "notjson", <<>>)}
    \cup {HttpResp(200, "json", t) : t \in RespTokens}

\* the call that returned or raised at the present instant, if any
NoOp == [op |-> "none", exc |-> "none", bool |-> FALSE, text |-> <<>>]
Returned(name, b, t) == [op |-> name, exc |-> "none", bool |-> b, text |-> t]
Raised(name, e) == [op |-> name, exc |-> e, bool |-> FALSE, text |-> <<>>]

\* history of the expiry-date file: who wrote it last, the date it denotes
\* (valid = FALSE: missing or malformed) and the day it was written
\* and whether the content it replaced was a valid date (prior)
ExpInit(v, d) == [by |-> "init", valid |-> v, date |-> d, day |-> 0, prior |-> FALSE]
ExpWritten(who) == [by |-> who, valid |-> TRUE, date |-> now.day + ExpireDays,
                    day |-> now.day, prior |-> expWrite.valid]

\* expiry-date files found on disk before the first refresh
InitExpireFiles ==
    { <<NoFile, ExpInit(FALSE, 0)>>,
      <<File(<<"x">>), ExpInit(FALSE, 0)>>,
      <<File(<<"2", "0", "2", "4", "-", "0", "1", "-", "0", "9", LF>>), ExpInit(FALSE, 0)>>,
      <<File(<<"2", "0", "2", "4", "-", "0", "1", "-", "0", "9">>), ExpInit(TRUE, 738894)>>,
      <<File(<<"2", "0", "2", "4", "-", "0", "1", "-", "1", "0">>), ExpInit(TRUE, 738895)>>,
      <<File(<<"2", "0", "2", "4", "-", "1", "-", "1", "1">>), ExpInit(TRUE, 738896)>> }

InitShortFiles == {NoFile, File(<<"s">>), File(<<"s", CR>>)}
InitLongFiles == {NoFile, File(<<"o">>)}

\* the last update_access_token_file call on the long-token file that returned
NoPut == [valid |-> FALSE, token |-> <<>>, raised |-> "none"]
Put(t) == [valid |-> TRUE, token |-> t, raised |-> WriteText(t).raised]

Running == pc \in {"L160", "L161", "L162", "L164", "L165", "L166"}

InitRun ==
    /\ pc = "idle"
    /\ short_access_token = <<>>
    /\ long_user_token = <<>>
    /\ long_page_token = <<>>
    /\ err = "none"
    /\ userResp = NoResp
    /\ pageResp = NoResp
    /\ sent = <<>>
    /\ log = <<>>
    /\ lastOp = NoOp
    /\ lastPut = NoPut

Init ==
    /\ \E s \in InitShortFiles, l \in InitLongFiles, e \in InitExpireFiles :
          /\ files = [f \in FileNames |->
                        IF f = short_token_file THEN s
                        ELSE IF f = expire_date_file THEN e[1]
                        ELSE l]
          /\ expWrite = e[2]
    /\ now = [day |-> FirstDay, tod |-> 0]
    /\ pre = files
    /\ InitRun


(* ---------------- the functions of access_token.py ---------------- *)
\* get_short_access_token(): the text of the short-token file
get_short_access_token ==
    IF files[short_token_file].exists
    THEN [exc |-> "none", text |-> ReadText(files[short_token_file].data)]
    ELSE [exc |-> "FileNotFoundError", text |-> <<>>]

\* variant of get_long_access_token: f.readline() in place of f.read()
get_long_access_token_Readline ==
    IF files[long_token_file].exists
    THEN [exc |-> "none", text |-> ReadLine(ReadText(files[long_token_file].data))]
    ELSE [exc |-> "FileNotFoundError", text |-> <<>>]

\* get_long_access_token(): the text of the long-token file
get_long_access_token ==
    IF files[long_token_file].exists
    THEN [exc |-> "none", text |-> ReadText(files[long_token_file].data)]
    ELSE [exc |-> "FileNotFoundError", text |-> <<>>]

\* variant of update_access_token_file: the file opened with 'a'
update_access_token_file_Append(token, filename) ==
    [files EXCEPT ![filename] =
        IF Encodable(token) THEN File(files[filename].data \o token)
        ELSE File(files[filename].data)]

\* update_access_token_file(token, filename): the files after the call
update_access_token_file(token, filename) ==
    [files EXCEPT ![filename] = WriteText(token).file]

\* get_expire_date(): the datetime parsed from the first line of the file
get_expire_date ==
    IF files[expire_date_file].exists
    THEN LET d == Strptime(ReadLine(ReadText(files[expire_date_file].data)))
         IN  [exc |-> IF d.ok THEN "none" ELSE "ValueError", dt |-> [day |-> d.day, tod |-> d.tod]]
    ELSE [exc |-> "FileNotFoundError", dt |-> [day |-> 0, tod |-> 0]]

\* token_expired(): expire_date <= datetime.today()
token_expired ==
    LET expire_date == get_expire_date
    IN  [exc |-> expire_date.exc,
         bool |-> expire_date.exc = "none" /\ DatetimeLe(expire_date.dt, now)]

\* variant of update_expire_date: 50 days counted from the stored date
update_expire_date_FromStored ==
    LET base == IF get_expire_date.exc = "none" THEN get_expire_date.dt ELSE now
        expire_date == [day |-> base.day + ExpireDays, tod |-> base.tod]
    IN  [files EXCEPT ![expire_date_file] = WriteText(Strftime(expire_date)).file]

\* update_expire_date(): the files after writing today + 50 days
update_expire_date ==
    LET expire_date == [day |-> now.day + ExpireDays, tod |-> now.tod]
    IN  [files EXCEPT ![expire_date_file] = WriteText(Strftime(expire_date)).file]

\* variant of Exchange: the status code is not looked at
Exchange_IgnoreStatus(r, error) ==
    IF r.kind = "conn_error" THEN [exc |-> "ConnectionError", token |-> <<>>]
    ELSE IF r.body = "notjson" THEN [exc |-> "JSONDecodeError", token |-> <<>>]
    ELSE IF r.body = "nokey" THEN [exc |-> "KeyError", token |-> <<>>]
    ELSE [exc |-> "none", token |-> r.access_token]

\* get_long_user_token / get_long_page_access_toke on answer r: the
\* 'access_token' of r.json() on status 200, else the exchange error
Exchange(r, error) ==
    IF r.kind = "conn_error" THEN [exc |-> "ConnectionError", token |-> <<>>]
    ELSE IF r.status # 200 THEN [exc |-> error, token |-> <<>>]
    ELSE IF r.body = "notjson" THEN [exc |-> "JSONDecodeError", token |-> <<>>]
    ELSE IF r.body = "nokey" THEN [exc |-> "KeyError", token |-> <<>>]
    ELSE [exc |-> "none", token |-> r.access_token]

Request(endpoint, token) == [endpoint |-> endpoint, token |-> token]

(* ---------------- the driver, one action per statement ---------------- *)
Abort(e) == pc' = "aborted" /\ err' = e

\* the script is started (by the operator or a scheduler)
StartRun ==
    /\ pc = "idle"
    /\ now.day <= FirstDay + RunSpan
    /\ pc' = "L160"
    /\ pre' = files
    /\ lastOp' = NoOp
    /\ UNCHANGED <<files, now, short_access_token, long_user_token,
                   long_page_token, err, userResp, pageResp, sent, log,
                   lastPut, expWrite>>

\* variant of ReadShortToken: the short token is used up, its file emptied
ReadShortToken_Consumes ==
    /\ pc = "L160"
    /\ LET r == get_short_access_token
       IN  /\ log' = Append(log, "read_short")
           /\ IF r.exc = "none"
              THEN /\ short_access_token' = r.text
                   /\ files' = [files EXCEPT ![short_token_file] = File(<<>>)]
                   /\ pc' = "L161"
                   /\ err' = err
              ELSE /\ Abort(r.exc)
                   /\ UNCHANGED <<short_access_token, files>>
    /\ UNCHANGED <<now, long_user_token, long_page_token, userResp,
                   pageResp, sent, pre, lastOp, lastPut, expWrite>>

\* short_access_token = get_short_access_token()
ReadShortToken ==
    /\ pc = "L160"
    /\ LET r == get_short_access_token
       IN  /\ log' = Append(log, "read_short")
           /\ IF r.exc = "none"
              THEN /\ short_access_token' = r.text
                   /\ pc' = "L161"
                   /\ err' = err
              ELSE /\ Abort(r.exc)
                   /\ UNCHANGED short_access_token
    /\ UNCHANGED <<files, now, long_user_token, long_page_token, userResp,
                   pageResp, sent, pre, lastOp, lastPut, expWrite>>

\* variant of UserExchange: the long token is stored as soon as it is known
UserExchange_WritesEarly ==
    /\ pc = "L161"
    /\ \E r \in Responses :
          LET x == Exchange(r, "UserLongTokenError")
          IN  /\ sent' = Append(sent, Request("oauth/access_token", short_access_token))
              /\ log' = Append(log, "user_exchange")
              /\ userResp' = r
              /\ IF x.exc = "none"
                 THEN /\ long_user_token' = x.token
                      /\ files' = update_access_token_file(x.token, long_token_file)
                      /\ pc' = "L162"
                      /\ err' = err
                 ELSE /\ Abort(x.exc)
                      /\ UNCHANGED <<long_user_token, files>>
    /\ UNCHANGED <<now, short_access_token, long_page_token, pageResp,
                   pre, lastOp, lastPut, expWrite>>

\* variant of UserExchange: a failed exchange is tried again
UserExchange_Retry ==
    /\ pc = "L161"
    /\ \E r \in Responses :
          LET x == Exchange(r, "UserLongTokenError")
          IN  /\ sent' = Append(sent, Request("oauth/access_token", short_access_token))
              /\ log' = IF log = <<"read_short">> THEN Append(log, "user_exchange") ELSE log
              /\ userResp' = r
              /\ IF x.exc = "none"
                 THEN /\ long_user_token' = x.token
                      /\ pc' = "L162"
                      /\ err' = err
                 ELSE IF Len(sent) = 0
                 THEN UNCHANGED <<long_user_token, pc, err>>
                 ELSE /\ Abort(x.exc)
                      /\ UNCHANGED long_user_token
    /\ UNCHANGED <<files, now, short_access_token, long_page_token, pageResp,
                   pre, lastOp, lastPut, expWrite>>

\* long_user_token = get_long_user_token(short_access_token)['access_token']
UserExchange ==
    /\ pc = "L161"
    /\ \E r \in Responses :
          LET x == Exchange(r, "UserLongTokenError")
          IN  /\ sent' = Append(sent, Request("oauth/access_token", short_access_token))
              /\ log' = Append(log, "user_exchange")
              /\ userResp' = r
              /\ IF x.exc = "none"
                 THEN /\ long_user_token' = x.token
                      /\ pc' = "L162"
                      /\ err' = err
                 ELSE /\ Abort(x.exc)
                      /\ UNCHANGED long_user_token
    /\ UNCHANGED <<files, now, short_access_token, long_page_token, pageResp,
                   pre, lastOp, lastPut, expWrite>>

\* variant of PageExchange: the request carries the short token
PageExchange_SendsShort ==
    /\ pc = "L162"
    /\ log' = Append(log, "page_exchange")
    /\ \E r \in Responses :
          LET x == Exchange(r, "PageLongTokenError")
          IN  /\ sent' = Append(sent, Request("page", short_access_token))
              /\ pageResp' = r
              /\ IF x.exc = "none"
                 THEN /\ long_page_token' = x.token
                      /\ pc' = "L164"
                      /\ err' = err
                 ELSE /\ Abort(x.exc)
                      /\ UNCHANGED long_page_token
    /\ UNCHANGED <<files, now, short_access_token, long_user_token, userResp,
                   pre, lastOp, lastPut, expWrite>>

\* long_page_token = get_long_page_access_toke(long_user_token)['access_token']
PageExchange ==
    /\ pc = "L162"
    /\ log' = Append(log, "page_exchange")
    /\ IF ~Encodable(long_user_token)
       THEN \* requests cannot encode the query string: nothing is sent
            /\ Abort("UnicodeEncodeError")
            /\ UNCHANGED <<long_page_token, pageResp, sent>>
       ELSE \E r \in Responses :
               LET x == Exchange(r, "PageLongTokenError")
               IN  /\ sent' = Append(sent, Request("page", long_user_token))
                   /\ pageResp' = r
                   /\ IF x.exc = "none"
                      THEN /\ long_page_token' = x.token
                           /\ pc' = "L164"
                           /\ err' = err
                      ELSE /\ Abort(x.exc)
                           /\ UNCHANGED long_page_token
    /\ UNCHANGED <<files, now, short_access_token, long_user_token, userResp,
                   pre, lastOp, lastPut, expWrite>>

\* update_access_token_file(long_user_token, config.long_token_file)
WriteLongToken ==
    /\ pc = "L164"
    /\ files' = update_access_token_file(long_user_token, long_token_file)
    /\ log' = Append(log, "write_long")
    /\ lastPut' = Put(long_user_token)
    /\ IF WriteText(long_user_token).raised = "none"
       THEN /\ pc' = "L165"
            /\ err' = err
       ELSE Abort(WriteText(long_user_token).raised)
    /\ UNCHANGED <<now, short_access_token, long_user_token, long_page_token,
                   userResp, pageResp, sent, pre, lastOp, expWrite>>

\* update_access_token_file(long_page_token, config.page_token_file)
WritePageToken ==
    /\ pc = "L165"
    /\ files' = update_access_token_file(long_page_token, page_token_file)
    /\ log' = Append(log, "write_page")
    /\ IF WriteText(long_page_token).raised = "none"
       THEN /\ pc' = "L166"
            /\ err' = err
       ELSE Abort(WriteText(long_page_token).raised)
    /\ UNCHANGED <<now, short_access_token, long_user_token, long_page_token,
                   userResp, pageResp, sent, pre, lastOp, lastPut, expWrite>>

\* update_expire_date(), then the script ends
WriteExpireDate ==
    /\ pc = "L166"
    /\ files' = update_expire_date
    /\ log' = Append(log, "write_expire")
    /\ expWrite' = ExpWritten("driver")
    /\ pc' = "done"
    /\ UNCHANGED <<now, short_access_token, long_user_token, long_page_token,
                   err, userResp, pageResp, sent, pre, lastOp, lastPut>>

\* the process exits, normally or on the uncaught exception; what it held
\* in memory is gone
Exit ==
    /\ pc \in {"done", "aborted"}
    /\ pc' = "idle"
    /\ short_access_token' = <<>>
    /\ long_user_token' = <<>>
    /\ long_page_token' = <<>>
    /\ err' = "none"
    /\ userResp' = NoResp
    /\ pageResp' = NoResp
    /\ sent' = <<>>
    /\ log' = <<>>
    /\ pre' = files
    /\ UNCHANGED <<files, now, lastOp, lastPut, expWrite>>

(* ---------------- calls made by the other scripts ---------------- *)
TokenExpired ==
    /\ pc = "idle"
    /\ LET r == token_expired
       IN  lastOp' = IF r.exc = "none"
                     THEN Returned("token_expired", r.bool, <<>>)
                     ELSE Raised("token_expired", r.exc)
    /\ UNCHANGED <<files, now, pc, short_access_token, long_user_token,
                   long_page_token, err, userResp, pageResp, sent, log, pre,
                   lastPut, expWrite>>

UpdateExpireDate ==
    /\ pc = "idle"
    /\ now.day <= FirstDay + RunSpan
    /\ files' = update_expire_date
    /\ expWrite' = ExpWritten("call")
    /\ lastOp' = Returned("update_expire_date", FALSE, <<>>)
    /\ UNCHANGED <<now, pc, short_access_token, long_user_token,
                   long_page_token, err, userResp, pageResp, sent, log, pre,
                   lastPut>>

GetLongAccessToken ==
    /\ pc = "idle"
    /\ LET r == get_long_access_token
       IN  lastOp' = IF r.exc = "none"
                     THEN Returned("get_long_access_token", FALSE, r.text)
                     ELSE Raised("get_long_access_token", r.exc)
    /\ UNCHANGED <<files, now, pc, short_access_token, long_user_token,
                   long_page_token, err, userResp, pageResp, sent, log, pre,
                   lastPut, expWrite>>

UpdateAccessTokenFile(t, filename) ==
    /\ pc = "idle"
    /\ files' = update_access_token_file(t, filename)
    /\ lastPut' = IF filename = long_token_file THEN Put(t) ELSE lastPut
    /\ lastOp' = IF WriteText(t).raised = "none"
                 THEN Returned("update_access_token_file", FALSE, t)
                 ELSE Raised("update_access_token_file", WriteText(t).raised)
    /\ UNCHANGED <<now, pc, short_access_token, long_user_token,
                   long_page_token, err, userResp, pageResp, sent, log, pre,
                   expWrite>>

(* ---------------- the clock ---------------- *)
Advance(span) ==
    /\ now' = IF now.tod < TodMax
              THEN [now EXCEPT !.tod = now.tod + 1]
              ELSE [day |-> now.day + 1, tod |-> 0]
    /\ now'.day <= FirstDay + span
    /\ lastOp' = NoOp
    /\ UNCHANGED <<files, pc, short_access_token, long_user_token,
                   long_page_token, err, userResp, pageResp, sent, log, pre,
                   lastPut, expWrite>>

Tick == Advance(DaySpan)

Next ==
    \/ StartRun
    \/ ReadShortToken
    \/ UserExchange
    \/ PageExchange
    \/ WriteLongToken
    \/ WritePageToken
    \/ WriteExpireDate
    \/ Exit
    \/ TokenExpired
    \/ UpdateExpireDate
    \/ GetLongAccessToken
    \/ Tick

Spec == Init /\ [][Next]_vars

(* ------- the refresh followed over the 50 days of the policy ------- *)
InitExpiry ==
    /\ \E e \in {x \in InitExpireFiles : x[1] = NoFile \/ x[2].date = FirstDay} :
          /\ files = [f \in FileNames |->
                        IF f = short_token_file THEN File(<<"s">>)
                        ELSE IF f = expire_date_file THEN e[1]
                        ELSE NoFile]
          /\ expWrite = e[2]
    /\ now = [day |-> FirstDay, tod |-> 0]
    /\ pre = files
    /\ InitRun

Tock == Advance(FarSpan)

NextExpiry ==
    \/ StartRun
    \/ ReadShortToken
    \/ UserExchange
    \/ PageExchange
    \/ WriteLongToken
    \/ WritePageToken
    \/ WriteExpireDate
    \/ Exit
    \/ TokenExpired
    \/ Tock

SpecExpiry == InitExpiry /\ [][NextExpiry]_vars

(* ------- the token store alone, over every short text ------- *)
TokenChars == {"a", LF, CR, SUR}

RECURSIVE TextsOfLen(_)
TextsOfLen(n) ==
    IF n = 0 THEN {<<>>}
    ELSE {Append(t, c) : t \in TextsOfLen(n - 1), c \in TokenChars}

Texts == UNION {TextsOfLen(n) : n \in 0..MaxTokenLen}

InitStore ==
    /\ \E l \in InitLongFiles :
          files = [f \in FileNames |->
                     IF f = short_token_file THEN File(<<"s">>)
                     ELSE IF f = expire_date_file THEN NoFile
                     ELSE l]
    /\ expWrite = ExpInit(FALSE, 0)
    /\ now = [day |-> FirstDay, tod |-> 0]
    /\ pre = files
    /\ InitRun

PutToken == \E t \in Texts : UpdateAccessTokenFile(t, long_token_file)

NextStore ==
    \/ PutToken
    \/ GetLongAccessToken

SpecStore == InitStore /\ [][NextStore]_vars


(* ---------------- the properties ---------------- *)
Failed(r) == r.kind = "http" /\ r.status # 200
Succeeded(r) == r.kind = "http" /\ r.status = 200
Events(q) == {q[i] : i \in 1..Len(q)}
RequestsTo(endpoint) == {i \in 1..Len(sent) : sent[i].endpoint = endpoint}
HasCR(t) == \E i \in 1..Len(t) : t[i] = CR
IsPrefix(a, b) == Len(a) <= Len(b) /\ a = SubSeq(b, 1, Len(a))

\* C1: a run in which the user exchange or the page exchange got a status
\* other than 200 ends with the error of that exchange (UserLongTokenError,
\* PageLongTokenError) and with every file holding its pre-run content.
C1_FailedExchangeWritesNothing ==
    /\ Failed(userResp) => pc = "aborted" /\ err = "UserLongTokenError" /\ files = pre
    /\ Failed(pageResp) => pc = "aborted" /\ err = "PageLongTokenError" /\ files = pre

C1_Witness ==
    /\ pc = "aborted"
    /\ Succeeded(userResp)
    /\ Failed(pageResp)
    /\ err = "PageLongTokenError"
    /\ pre[long_token_file].exists

\* C2: when a run completes, the long-token file holds exactly the
\* 'access_token' of the user answer, the page-token file exactly the
\* 'access_token' of the page answer, and the expiry-date file the date of
\* the run plus 50 days, written as YYYY-MM-DD.
C2_DriverWritesTokensAndExpiry ==
    pc = "done" =>
        /\ Succeeded(userResp) /\ Succeeded(pageResp)
        /\ files[long_token_file] = File(userResp.access_token)
        /\ files[page_token_file] = File(pageResp.access_token)
        /\ Len(files[expire_date_file].data) = 10
        /\ Strptime(files[expire_date_file].data).ok
        /\ expWrite.by = "driver"
        /\ Strptime(files[expire_date_file].data).day = expWrite.day + 50

C2_Witness ==
    /\ pc = "done"
    /\ pre[long_token_file] = File(<<"o">>)
    /\ userResp.access_token = <<"u", CR>>
    /\ pageResp.access_token = <<"u">>
    /\ expWrite.prior

\* C3: for a stored expiry date, token_expired() returns true exactly when
\* the stored date is less than or equal to the current date.
C3_ExpiredIffStoredDateNotAfterToday ==
    (lastOp.op = "token_expired" /\ expWrite.valid) =>
        /\ lastOp.exc = "none"
        /\ lastOp.bool = (expWrite.date <= now.day)

C3_Witness ==
    /\ lastOp.op = "token_expired"
    /\ expWrite.by = "init"
    /\ expWrite.date = now.day
    /\ now.tod = 0
    /\ lastOp.bool

\* C4: after update_expire_date() the expiry-date file holds the current
\* date plus 50 days, whatever it held before (nothing, or no date at all).
C4_NextExpiryIsTodayPlus50 ==
    lastOp.op = "update_expire_date" =>
        /\ files[expire_date_file].exists
        /\ Len(files[expire_date_file].data) = 10
        /\ get_expire_date.exc = "none"
        /\ get_expire_date.dt = [day |-> now.day + 50, tod |-> 0]

C4_Witness ==
    /\ lastOp.op = "update_expire_date"
    /\ ~expWrite.prior
    /\ now.day = FirstDay + 1

\* C5 as stated: for every token text t, update_access_token_file(t,
\* long_token_file) followed by get_long_access_token() returns exactly t.
C5_RoundTripEveryText ==
    (lastOp.op = "get_long_access_token" /\ lastPut.valid) =>
        /\ lastOp.exc = "none"
        /\ lastOp.text = lastPut.token

\* C5 amended: for every token text t without a carriage return that the
\* file encoding can encode, update_access_token_file(t, long_token_file)
\* followed by get_long_access_token() returns exactly t.
C5_RoundTripWithoutCR ==
    (/\ lastOp.op = "get_long_access_token"
     /\ lastPut.valid
     /\ lastPut.raised = "none"
     /\ ~HasCR(lastPut.token)) =>
        /\ lastOp.exc = "none"
        /\ lastOp.text = lastPut.token

C5_Witness ==
    /\ lastOp.op = "get_long_access_token"
    /\ lastPut.valid
    /\ lastPut.token = <<"a", LF, "a">>
    /\ lastOp.text = <<"a", LF, "a">>

\* C6: the steps of a run occur in the order read the short token, user
\* exchange, page exchange, write the long-token file, write the page-token
\* file, write the expiry-date file; no file is written before both
\* exchanges succeeded, the expiry-date file only after both token files.
RunOrder == <<"read_short", "user_exchange", "page_exchange",
              "write_long", "write_page", "write_expire">>

C6_FixedStepOrder ==
    /\ IsPrefix(log, RunOrder)
    /\ (pc # "idle" /\ "write_long" \notin Events(log)) => files = pre
    /\ "write_long" \in Events(log) => Succeeded(userResp) /\ Succeeded(pageResp)
    /\ (pc # "idle" /\ "write_expire" \notin Events(log)) =>
           files[expire_date_file] = pre[expire_date_file]
    /\ "write_expire" \in Events(log) =>
           /\ files[long_token_file] = File(long_user_token)
           /\ files[page_token_file] = File(long_page_token)

C6_Witness ==
    /\ pc = "done"
    /\ log = RunOrder
    /\ files[long_token_file] # pre[long_token_file]

\* C7: a run sends at most one GET to the token-exchange endpoint and at
\* most one to the page endpoint, whatever the answers.
C7_AtMostOneRequestEach ==
    /\ Cardinality(RequestsTo("oauth/access_token")) <= 1
    /\ Cardinality(RequestsTo("page")) <= 1

C7_Witness ==
    /\ pc = "aborted"
    /\ Failed(userResp)
    /\ Cardinality(RequestsTo("oauth/access_token")) = 1

\* C8: the page request is sent only after the user exchange returned status
\* 200 and carries the 'access_token' of that answer; when reading the short
\* token or the user exchange fails, the run aborts with no page request.
C8_PageRequestCarriesUserToken ==
    /\ \A i \in RequestsTo("page") :
          /\ Succeeded(userResp)
          /\ userResp.body = "json"
          /\ sent[i].token = userResp.access_token
          /\ i = 2
    /\ (pc # "idle" /\ ~pre[short_token_file].exists) =>
          pc \in {"L160", "aborted"} /\ sent = <<>>
    /\ Failed(userResp) \/ userResp.kind = "conn_error" =>
          pc = "aborted" /\ RequestsTo("page") = {}

C8_Witness ==
    /\ RequestsTo("page") # {}
    /\ sent[2].token = <<"u", CR>>

\* C9: after a run completed on day D and no later write of the expiry-date
\* file, token_expired() returns false on every date before D + 50 days and
\* true on every date from D + 50 days on.
C9_ExpiredFromFiftyDaysOn ==
    (lastOp.op = "token_expired" /\ expWrite.by = "driver") =>
        /\ lastOp.exc = "none"
        /\ lastOp.bool = (now.day >= expWrite.day + 50)

C9_Witness ==
    /\ lastOp.op = "token_expired"
    /\ expWrite.by = "driver"
    /\ expWrite.day = FirstDay + 1
    /\ now = [day |-> expWrite.day + 50, tod |-> 0]
    /\ lastOp.bool

\* C10: no step of a run and no call of token_expired() changes the
\* short-token file.
C10_ShortTokenFileUntouched ==
    [][files'[short_token_file] = files[short_token_file]]_vars

C10_Witness ==
    /\ pc = "aborted"
    /\ err = "UserLongTokenError"
    /\ files[short_token_file] = File(<<"s", CR>>)
    /\ short_access_token = <<"s", LF>>

====
